---- MODULE Spec2Model ----
(***************************************************************************)
(* Model of library/comware_install_config2.py: the Ansible module that    *)
(* pushes a configuration file to a Comware 7 device and, when             *)
(* is_delete=false, first diffs it against a previous configuration and    *)
(* synthesizes "undo" commands (process_diff).                             *)
(*                                                                         *)
(* Strings are TLA+ strings; Python's s[0], s[1:], startswith, + and       *)
(* rstrip are the operators Marker, Body, StartsWith, \o and Rstrip.       *)
(* Python indices are kept 0-based and half-open in the difflib part, so   *)
(* a[i] of the source is a[i+1] here.                                      *)
(***************************************************************************)
EXTENDS Integers, Sequences, FiniteSets, TLC

(***************************************************************************)
(* Bounds of the model.                                                    *)
(***************************************************************************)
\* longest previous configuration given to process_diff on its own
MaxPrevLen == 2
\* longest current configuration given to process_diff on its own
MaxCurLen == 1
\* longest configuration text (file or literal content) in the whole flow
MaxLines == 2

(***************************************************************************)
(* String helpers (Python str operations used by the source).              *)
(***************************************************************************)
\* s[0:1]
Marker(s) == IF Len(s) = 0 THEN "" ELSE SubSeq(s, 1, 1)

\* s[1:]
Body(s) == IF Len(s) <= 1 THEN "" ELSE SubSeq(s, 2, Len(s))

\* s.startswith(p)
StartsWith(s, p) == Len(s) >= Len(p) /\ SubSeq(s, 1, Len(p)) = p

Whitespace == {" ", "\t", "\n", "\r"}

\* s.rstrip()
RECURSIVE Rstrip(_)
Rstrip(s) ==
    IF Len(s) = 0 THEN s
    ELSE IF SubSeq(s, Len(s), Len(s)) \in Whitespace
         THEN Rstrip(SubSeq(s, 1, Len(s) - 1))
         ELSE s

Max2(x, y) == IF x >= y THEN x ELSE y
Min2(x, y) == IF x <= y THEN x ELSE y

\* all sequences over S of length at most n
SeqsUpTo(S, n) == UNION {[1..k -> S] : k \in 0..n}

(***************************************************************************)
(* difflib.unified_diff(previous_config, current_config, fromfile=...,     *)
(* tofile=...) with its defaults n=3 and lineterm="\n", as called by       *)
(* process_diff.  No junk function is given and the automatic junk         *)
(* heuristic only applies to sequences of 200 lines or more, so            *)
(* find_longest_match is the plain longest common block, earliest in a,    *)
(* then earliest in b.                                                     *)
(***************************************************************************)
\* number of context lines (difflib default n=3)
ContextLines == 3

\* length of the common run of a[i:ahi] and b[j:bhi] starting at i and j
RECURSIVE MatchLen(_, _, _, _, _, _)
MatchLen(a, b, i, j, ahi, bhi) ==
    IF i < ahi /\ j < bhi /\ a[i + 1] = b[j + 1]
    THEN 1 + MatchLen(a, b, i + 1, j + 1, ahi, bhi)
    ELSE 0

\* SequenceMatcher.find_longest_match(alo, ahi, blo, bhi) -> <<i, j, k>>
FindLongestMatch(a, b, alo, ahi, blo, bhi) ==
    LET cands == {<<i, j>> : i \in alo..(ahi - 1), j \in blo..(bhi - 1)}
        len(c) == MatchLen(a, b, c[1], c[2], ahi, bhi)
        hits  == {c \in cands : len(c) > 0}
    IN  IF hits = {} THEN <<alo, blo, 0>>
        ELSE LET best == CHOOSE c \in hits :
                            \A d \in hits :
                               \/ len(c) > len(d)
                               \/ /\ len(c) = len(d)
                                  /\ \/ c[1] < d[1]
                                     \/ c[1] = d[1] /\ c[2] <= d[2]
             IN  <<best[1], best[2], len(best)>>

\* the recursion of get_matching_blocks; the result is already sorted
RECURSIVE MatchingBlocksRec(_, _, _, _, _, _)
RECURSIVE MatchingBlocksAround(_, _, _, _, _, _, _)
MatchingBlocksRec(a, b, alo, ahi, blo, bhi) ==
    MatchingBlocksAround(a, b, alo, ahi, blo, bhi,
                         FindLongestMatch(a, b, alo, ahi, blo, bhi))

\* the body of the queue loop for the longest match x = <<i, j, k>>
MatchingBlocksAround(a, b, alo, ahi, blo, bhi, x) ==
    IF x[3] = 0 THEN <<>>
    ELSE (IF alo < x[1] /\ blo < x[2]
          THEN MatchingBlocksRec(a, b, alo, x[1], blo, x[2]) ELSE <<>>)
         \o <<x>> \o
         (IF x[1] + x[3] < ahi /\ x[2] + x[3] < bhi
          THEN MatchingBlocksRec(a, b, x[1] + x[3], ahi, x[2] + x[3], bhi)
          ELSE <<>>)

\* the collapse of adjacent blocks in get_matching_blocks
RECURSIVE CollapseAdjacent(_, _, _)
CollapseAdjacent(blocks, cur, acc) ==
    IF blocks = <<>>
    THEN (IF cur[3] > 0 THEN Append(acc, cur) ELSE acc)
    ELSE IF cur[1] + cur[3] = blocks[1][1] /\ cur[2] + cur[3] = blocks[1][2]
    THEN CollapseAdjacent(Tail(blocks),
                          <<cur[1], cur[2], cur[3] + blocks[1][3]>>, acc)
    ELSE CollapseAdjacent(Tail(blocks), blocks[1],
                          IF cur[3] > 0 THEN Append(acc, cur) ELSE acc)

\* SequenceMatcher.get_matching_blocks(), with the (la, lb, 0) sentinel
GetMatchingBlocks(a, b) ==
    Append(CollapseAdjacent(MatchingBlocksRec(a, b, 0, Len(a), 0, Len(b)),
                            <<0, 0, 0>>, <<>>),
           <<Len(a), Len(b), 0>>)

\* the tag get_opcodes gives to the gap before the block at <<ai, bj>>
GapTag(i, j, ai, bj) ==
    IF i < ai /\ j < bj THEN "replace"
    ELSE IF i < ai THEN "delete"
    ELSE IF j < bj THEN "insert"
    ELSE ""

\* the opcodes get_opcodes appends for one matching block <<ai, bj, size>>
BlockOpcodes(i, j, ai, bj, size) ==
    (IF GapTag(i, j, ai, bj) # ""
     THEN << <<GapTag(i, j, ai, bj), i, ai, j, bj>> >> ELSE <<>>)
    \o
    (IF size > 0 THEN << <<"equal", ai, ai + size, bj, bj + size>> >> ELSE <<>>)

\* SequenceMatcher.get_opcodes(): a sequence of <<tag, i1, i2, j1, j2>>
RECURSIVE OpcodesRec(_, _, _, _)
OpcodesRec(blocks, i, j, acc) ==
    IF blocks = <<>> THEN acc
    ELSE OpcodesRec(Tail(blocks),
                    blocks[1][1] + blocks[1][3], blocks[1][2] + blocks[1][3],
                    acc \o BlockOpcodes(i, j, blocks[1][1], blocks[1][2],
                                        blocks[1][3]))

GetOpcodes(a, b) == OpcodesRec(GetMatchingBlocks(a, b), 0, 0, <<>>)

\* an equal opcode cut down to its last n lines
LastLines(c, n) == <<c[1], Max2(c[2], c[3] - n), c[3], Max2(c[4], c[5] - n), c[5]>>

\* an equal opcode cut down to its first n lines
FirstLines(c, n) == <<c[1], c[2], Min2(c[3], c[2] + n), c[4], Min2(c[5], c[4] + n)>>

\* the grouping loop of get_grouped_opcodes
RECURSIVE GroupRec(_, _, _, _)
GroupRec(codes, group, groups, n) ==
    IF codes = <<>>
    THEN (IF group # <<>> /\ ~(Len(group) = 1 /\ group[1][1] = "equal")
          THEN Append(groups, group) ELSE groups)
    ELSE IF codes[1][1] = "equal" /\ codes[1][3] - codes[1][2] > n + n
    THEN GroupRec(Tail(codes), <<LastLines(codes[1], n)>>,
                  Append(groups, Append(group, FirstLines(codes[1], n))), n)
    ELSE GroupRec(Tail(codes), Append(group, codes[1]), groups, n)

\* codes = [("equal", 0, 1, 0, 1)] when there are no opcodes
OrNoChange(codes) == IF codes = <<>> THEN << <<"equal", 0, 1, 0, 1>> >> ELSE codes

\* the fixup of a leading group that shows no changes
FixLeading(codes, n) ==
    IF codes[1][1] = "equal"
    THEN [codes EXCEPT ![1] = LastLines(codes[1], n)] ELSE codes

\* the fixup of a trailing group that shows no changes
FixTrailing(codes, n) ==
    IF codes[Len(codes)][1] = "equal"
    THEN [codes EXCEPT ![Len(codes)] = FirstLines(codes[Len(codes)], n)]
    ELSE codes

\* SequenceMatcher.get_grouped_opcodes(n)
GetGroupedOpcodes(a, b, n) ==
    GroupRec(FixTrailing(FixLeading(OrNoChange(GetOpcodes(a, b)), n), n),
             <<>>, <<>>, n)

\* difflib._format_range_unified(start, stop)
FormatRangeUnified(start, stop) ==
    IF stop - start = 1 THEN ToString(start + 1)
    ELSE IF stop - start = 0 THEN ToString(start) \o "," \o ToString(0)
    ELSE ToString(start + 1) \o "," \o ToString(stop - start)

\* [prefix + line for line in s[lo:hi]]
Tagged(prefix, s, lo, hi) == [k \in 1..(hi - lo) |-> prefix \o s[lo + k]]

\* the lines unified_diff yields for one opcode
OpcodeLines(a, b, c) ==
    IF c[1] = "equal" THEN Tagged(" ", a, c[2], c[3])
    ELSE (IF c[1] \in {"replace", "delete"} THEN Tagged("-", a, c[2], c[3]) ELSE <<>>)
         \o
         (IF c[1] \in {"replace", "insert"} THEN Tagged("+", b, c[4], c[5]) ELSE <<>>)

RECURSIVE GroupLines(_, _, _)
GroupLines(a, b, group) ==
    IF group = <<>> THEN <<>>
    ELSE OpcodeLines(a, b, Head(group)) \o GroupLines(a, b, Tail(group))

\* the hunk header and lines unified_diff yields for one group
HunkLines(a, b, group) ==
    << "@@ -" \o FormatRangeUnified(group[1][2], group[Len(group)][3])
       \o " +" \o FormatRangeUnified(group[1][4], group[Len(group)][5])
       \o " @@\n" >>
    \o GroupLines(a, b, group)

RECURSIVE AllHunks(_, _, _)
AllHunks(a, b, groups) ==
    IF groups = <<>> THEN <<>>
    ELSE HunkLines(a, b, Head(groups)) \o AllHunks(a, b, Tail(groups))

\* the two file header lines, yielded before the first group only
WithHeader(hunks) ==
    IF hunks = <<>> THEN <<>>
    ELSE <<"--- previous_config\n", "+++ current_config\n">> \o hunks

\* list(difflib.unified_diff(a, b, fromfile="previous_config",
\*                           tofile="current_config"))
UnifiedDiff(a, b) ==
    WithHeader(AllHunks(a, b, GetGroupedOpcodes(a, b, ContextLines)))

\* seq[2:]
DropTwo(s) == IF Len(s) <= 2 THEN <<>> ELSE SubSeq(s, 3, Len(s))


(***************************************************************************)
(* process_diff: the rule table applied to one diff line.  Each rule is an *)
(* independent `if` of the loop body; its value is the commands it appends *)
(* to changed_commands.                                                    *)
(***************************************************************************)
Removed(line, prefix) == Marker(line) = "-" /\ StartsWith(Body(line), prefix)

\* ServiceInstanceRule with the context entry after the undo
ServiceInstanceRuleSwapped(line, last) ==
    IF Removed(line, "service-instance")
    THEN <<"undo " \o Body(line), Body(last), "quit\n">>
    ELSE <<>>

ServiceInstanceRule(line, last) ==
    IF Removed(line, "service-instance")
    THEN <<Body(last), "undo " \o Body(line), "quit\n">>
    ELSE <<>>

RouteStaticRule(line) ==
    IF Removed(line, "ip route-static vpn-instance")
    THEN <<"undo " \o Body(line)>> ELSE <<>>

VsiRule(line) ==
    IF Removed(line, "vsi") THEN <<"undo " \o Body(line)>> ELSE <<>>

\* VpnInstanceRule testing last_line with its marker still on
VpnInstanceRuleUnstripped(line, last) ==
    IF Removed(line, "ip vpn-instance")
    THEN IF StartsWith(last, "bgp")
         THEN <<Body(last), "undo " \o Body(line), "quit\n">>
         ELSE <<"undo " \o Body(line)>>
    ELSE <<>>

VpnInstanceRule(line, last) ==
    IF Removed(line, "ip vpn-instance")
    THEN IF StartsWith(Body(last), "bgp")
         THEN <<Body(last), "undo " \o Body(line), "quit\n">>
         ELSE <<"undo " \o Body(line)>>
    ELSE <<>>

VsiInterfaceRule(line) ==
    IF Removed(line, "interface Vsi-interface")
    THEN <<"undo " \o Body(line)>> ELSE <<>>

TunnelRule(line) ==
    IF Removed(line, "interface Tunnel")
    THEN <<"undo " \o Body(line)>> ELSE <<>>

\* everything one iteration appends to changed_commands
LineCommands(line, last) ==
    ServiceInstanceRule(line, last) \o RouteStaticRule(line) \o VsiRule(line)
    \o VpnInstanceRule(line, last) \o VsiInterfaceRule(line) \o TunnelRule(line)

\* the test guarding list_diff.append(line)
Reported(line) == Marker(line) \in {"-", "+"} /\ Len(line) > 1

(***************************************************************************)
(* main: pure parts.                                                       *)
(***************************************************************************)
\* [line.rstrip() for line in fp]: iterating a file yields each line with
\* its terminator
FileCommands(lines) == [k \in 1..Len(lines) |-> Rstrip(lines[k] \o "\n")]

NoChanges == "# There are no changes"

\* FinalCommands with the file's lines put before the undo commands
FinalCommandsFileFirst(mode, cmds, diffs, lines) ==
    IF mode = "true" THEN FileCommands(lines) \o cmds
    ELSE IF mode = "false" /\ Len(diffs) > 0 THEN FileCommands(lines) \o cmds
    ELSE Append(cmds, NoChanges)

\* FinalCommands without the placeholder of the last branch
FinalCommandsNoPlaceholder(mode, cmds, diffs, lines) ==
    IF mode = "true" THEN cmds \o FileCommands(lines)
    ELSE IF mode = "false" /\ Len(diffs) > 0 THEN cmds \o FileCommands(lines)
    ELSE cmds

\* the command list after the `if config_file_exists:` block
FinalCommands(mode, cmds, diffs, lines) ==
    IF mode = "true" THEN cmds \o FileCommands(lines)
    ELSE IF mode = "false" /\ Len(diffs) > 0 THEN cmds \o FileCommands(lines)
    ELSE Append(cmds, NoChanges)

\* ';'.join(commands)
RECURSIVE Join(_)
Join(cmds) ==
    IF cmds = <<>> THEN ""
    ELSE IF Len(cmds) = 1 THEN cmds[1]
    ELSE cmds[1] \o ";" \o Join(Tail(cmds))

\* bool(previous_config_content): supplied and not the empty string; the
\* value is kept as what split('\n') returns, the empty string being <<"">>
ContentGiven(content) == content.supplied /\ content.segs # <<"">>

\* the device entry point selected by `type`
EntryPoint(t) == IF t \in {"show", "display"} THEN "cli_display" ELSE "cli_config"

\* safe_fail / safe_exit: device.close() when a device is passed
SafeClose(log, withDevice) == IF withDevice THEN Append(log, "close") ELSE log

(***************************************************************************)
(* State.                                                                  *)
(***************************************************************************)
VARIABLES
    pc,                      \* position in main
    ctype,                   \* module.params['type']
    config_file,             \* the path's state on disk and its lines
    previous_config_file,    \* module.params['previous_config_file']
    previous_config_content, \* module.params['previous_config_content']
    is_delete,               \* str(module.params['is_delete']).lower()
    check_mode,              \* module.check_mode
    config_file_exists,
    previous_config,
    current_config,
    diff_lines,              \* list(diff)[2:]
    idx,                     \* position of the loop in diff_lines
    last_line,
    changed_commands,
    pd_list_diff,            \* list_diff local to process_diff
    list_diff,
    commands,
    config_string,
    calls,                   \* calls made on the device object, in order
    sent,                    \* the argument of cli_display / cli_config
    reported,                \* how the process ended
    failure                  \* what fail_json was told (msg / descr)

vars == <<pc, ctype, config_file, previous_config_file, previous_config_content,
          is_delete, check_mode, config_file_exists, previous_config,
          current_config, diff_lines, idx, last_line, changed_commands,
          pd_list_diff, list_diff, commands, config_string, calls, sent,
          reported, failure>>

params == <<ctype, config_file, previous_config_file, previous_config_content,
            is_delete, check_mode>>

pdvars == <<diff_lines, idx, last_line, changed_commands, pd_list_diff>>

\* configuration lines of the whole-flow specification
MainLines == {"service-instance 5", "vsi a "}

\* configuration lines of the process_diff specification
DiffVocabulary ==
    {"context-line", "service-instance 5", "bgp", "ip vpn-instance test", "",
     "vsi a", "ip route-static vpn-instance a 1.1.1.0 24 2.2.2.2",
     "interface Vsi-interface1", "interface Tunnel1", "description foo"}

Texts == SeqsUpTo(MainLines, MaxLines)

ConfigFiles ==
    {[state |-> "missing", lines |-> <<>>], [state |-> "unreadable", lines |-> <<>>]}
    \cup {[state |-> "readable", lines |-> t] : t \in Texts}

PreviousFiles == {[state |-> "None", lines |-> <<>>]} \cup ConfigFiles

Contents ==
    {[supplied |-> FALSE, segs |-> <<>>], [supplied |-> TRUE, segs |-> <<"">>]}
    \cup {[supplied |-> TRUE, segs |-> t] : t \in Texts \ {<<>>}}

Locals ==
    /\ diff_lines = <<>>
    /\ idx = 1
    /\ last_line = ""
    /\ changed_commands = <<>>
    /\ pd_list_diff = <<>>
    /\ list_diff = <<>>
    /\ commands = <<>>
    /\ config_string = ""
    /\ sent = <<>>
    /\ reported = "none"
    /\ failure = ""

\* the module has been constructed from its parameters
Init ==
    /\ pc = "start"
    /\ ctype \in {"display", "show", "config"}
    /\ config_file \in ConfigFiles
    /\ previous_config_file \in PreviousFiles
    /\ previous_config_content \in Contents
    /\ is_delete \in {"true", "false", "yes"}
    /\ check_mode \in BOOLEAN
    /\ calls = <<>>
    /\ config_file_exists = FALSE
    /\ previous_config = <<>>
    /\ current_config = <<>>
    /\ Locals

\* process_diff is entered with two configurations
InitDiff ==
    /\ pc = "diff"
    /\ ctype = "config"
    /\ is_delete = "false"
    /\ check_mode = FALSE
    /\ \E p \in SeqsUpTo(DiffVocabulary, MaxPrevLen),
          c \in SeqsUpTo(DiffVocabulary, MaxCurLen) :
          /\ config_file = [state |-> "readable", lines |-> c]
          /\ previous_config_file = [state |-> "readable", lines |-> p]
          /\ previous_config_content = [supplied |-> FALSE, segs |-> <<>>]
          /\ previous_config = p
          /\ current_config = c
    /\ calls = <<"open">>
    /\ config_file_exists = TRUE
    /\ Locals


(***************************************************************************)
(* main, one action per step.  An uncaught Python exception ends the       *)
(* process with a traceback: no safe_fail, no safe_exit, no device.close.  *)
(***************************************************************************)
Traceback ==
    /\ pc' = "exited"
    /\ reported' = "traceback"
    /\ failure' = failure

\* module.fail_json(msg=..., descr=...): reports the failure and exits
FailJson(what) ==
    /\ pc' = "exited"
    /\ reported' = "fail_json"
    /\ failure' = what

\* module.exit_json(...): reports success and exits
ExitJson ==
    /\ pc' = "exited"
    /\ reported' = "exit_json"
    /\ failure' = failure

\* the HAS_PYHP test, socket.gethostbyname and the HPCOM7 constructor
Start ==
    /\ pc = "start"
    /\ \E has_pyhp \in BOOLEAN, resolved \in BOOLEAN :
          IF ~has_pyhp
          THEN FailJson("problem loading from the pyhpecw7 module")
          ELSE IF ~resolved
          THEN Traceback
          ELSE /\ pc' = "check_file"
               /\ UNCHANGED <<reported, failure>>
    /\ UNCHANGED <<params, pdvars, config_file_exists, previous_config,
                   current_config, list_diff, commands, config_string, calls,
                   sent>>

\* CheckConfigFile without the else branch: a missing file does not stop main
CheckConfigFileNoFail ==
    /\ pc = "check_file"
    /\ config_file_exists' = (config_file.state # "missing")
    /\ pc' = "open"
    /\ calls' = calls
    /\ UNCHANGED <<params, pdvars, previous_config, current_config, list_diff,
                   commands, config_string, sent, reported, failure>>

\* os.path.isfile(config_file), else safe_fail without the device
CheckConfigFile ==
    /\ pc = "check_file"
    /\ IF config_file.state # "missing"
       THEN /\ config_file_exists' = TRUE
            /\ pc' = "open"
            /\ UNCHANGED <<reported, failure>>
       ELSE /\ config_file_exists' = FALSE
            /\ FailJson("Cannot find/access config_file")
    /\ calls' = SafeClose(calls, FALSE)
    /\ UNCHANGED <<params, pdvars, previous_config, current_config, list_diff,
                   commands, config_string, sent>>

\* device.open(), ConnectionError handled by safe_fail with the device
DeviceOpen ==
    /\ pc = "open"
    /\ \E outcome \in {"ok", "ConnectionError"} :
          IF outcome = "ok"
          THEN /\ calls' = Append(calls, "open")
               /\ pc' = "load"
               /\ UNCHANGED <<reported, failure>>
          ELSE /\ calls' = SafeClose(Append(calls, "open"), TRUE)
               /\ FailJson("error during device open")
    /\ UNCHANGED <<params, pdvars, config_file_exists, previous_config,
                   current_config, list_diff, commands, config_string, sent>>

\* the previous configuration of the incremental branch; isfile(None)
\* raises TypeError and open() of an unreadable file raises IOError
PreviousOutcome(content, pfile) ==
    IF ContentGiven(content) THEN [ok |-> TRUE, lines |-> content.segs]
    ELSE IF pfile.state = "None" THEN [ok |-> FALSE, lines |-> <<>>]
    ELSE IF pfile.state = "unreadable" THEN [ok |-> FALSE, lines |-> <<>>]
    ELSE IF pfile.state = "readable" THEN [ok |-> TRUE, lines |-> pfile.lines]
    ELSE [ok |-> TRUE, lines |-> <<>>]

\* LoadConfigs testing for anything but 'yes' instead of 'false'
LoadConfigsWrongMode ==
    /\ pc = "load"
    /\ IF is_delete # "yes"
       THEN LET prev == PreviousOutcome(previous_config_content,
                                        previous_config_file)
            IN  IF ~prev.ok
                THEN /\ Traceback
                     /\ UNCHANGED <<previous_config, current_config>>
                ELSE IF config_file.state = "unreadable"
                THEN /\ Traceback
                     /\ previous_config' = prev.lines
                     /\ UNCHANGED current_config
                ELSE /\ previous_config' = prev.lines
                     /\ current_config' = config_file.lines
                     /\ pc' = "diff"
                     /\ UNCHANGED <<reported, failure>>
       ELSE /\ pc' = "build"
            /\ UNCHANGED <<previous_config, current_config, reported,
                           failure>>
    /\ UNCHANGED <<params, pdvars, config_file_exists, list_diff, commands,
                   config_string, calls, sent>>

\* the `if str(is_delete).lower() == 'false':` block up to process_diff
LoadConfigs ==
    /\ pc = "load"
    /\ IF is_delete = "false"
       THEN LET prev == PreviousOutcome(previous_config_content,
                                        previous_config_file)
            IN  IF ~prev.ok
                THEN /\ Traceback
                     /\ UNCHANGED <<previous_config, current_config>>
                ELSE IF config_file.state = "unreadable"
                THEN /\ Traceback
                     /\ previous_config' = prev.lines
                     /\ UNCHANGED current_config
                ELSE /\ previous_config' = prev.lines
                     /\ current_config' = config_file.lines
                     /\ pc' = "diff"
                     /\ UNCHANGED <<reported, failure>>
       ELSE /\ pc' = "build"
            /\ UNCHANGED <<previous_config, current_config, reported,
                           failure>>
    /\ UNCHANGED <<params, pdvars, config_file_exists, list_diff, commands,
                   config_string, calls, sent>>

\* process_diff up to the loop: the diff without its two header lines
ProcessDiffBegin ==
    /\ pc = "diff"
    /\ diff_lines' = DropTwo(UnifiedDiff(previous_config, current_config))
    /\ idx' = 1
    /\ last_line' = ""
    /\ changed_commands' = <<>>
    /\ pd_list_diff' = <<>>
    /\ pc' = "pd_loop"
    /\ UNCHANGED <<params, config_file_exists, previous_config, current_config,
                   list_diff, commands, config_string, calls, sent, reported,
                   failure>>

\* ProcessDiffLine with `last_line = line` moved under the list_diff test
ProcessDiffLineGuardedLast ==
    /\ pc = "pd_loop"
    /\ idx <= Len(diff_lines)
    /\ LET line == diff_lines[idx]
       IN  IF Len(line) = 0
           THEN /\ Traceback
                /\ UNCHANGED pdvars
           ELSE /\ changed_commands' =
                       changed_commands \o LineCommands(line, last_line)
                /\ last_line' = IF Reported(line) THEN line ELSE last_line
                /\ pd_list_diff' = IF Reported(line)
                                   THEN Append(pd_list_diff, line)
                                   ELSE pd_list_diff
                /\ idx' = idx + 1
                /\ UNCHANGED <<diff_lines, pc, reported, failure>>
    /\ UNCHANGED <<params, config_file_exists, previous_config, current_config,
                   list_diff, commands, config_string, calls, sent>>

\* one iteration of the loop of process_diff; line[0] of an empty line
\* raises IndexError (line.strip() discards its result)
ProcessDiffLine ==
    /\ pc = "pd_loop"
    /\ idx <= Len(diff_lines)
    /\ LET line == diff_lines[idx]
       IN  IF Len(line) = 0
           THEN /\ Traceback
                /\ UNCHANGED pdvars
           ELSE /\ changed_commands' =
                       changed_commands \o LineCommands(line, last_line)
                /\ last_line' = line
                /\ pd_list_diff' = IF Reported(line)
                                   THEN Append(pd_list_diff, line)
                                   ELSE pd_list_diff
                /\ idx' = idx + 1
                /\ UNCHANGED <<diff_lines, pc, reported, failure>>
    /\ UNCHANGED <<params, config_file_exists, previous_config, current_config,
                   list_diff, commands, config_string, calls, sent>>

\* return list_diff, changed_commands; commands += changed_commands
ProcessDiffReturn ==
    /\ pc = "pd_loop"
    /\ idx > Len(diff_lines)
    /\ list_diff' = pd_list_diff
    /\ commands' = commands \o changed_commands
    /\ pc' = "build"
    /\ UNCHANGED <<params, pdvars, config_file_exists, previous_config,
                   current_config, config_string, calls, sent, reported,
                   failure>>

\* the `if config_file_exists:` block, proposed and config_string
BuildCommandList ==
    /\ pc = "build"
    /\ IF config_file_exists /\ is_delete = "true"
          /\ config_file.state = "unreadable"
       THEN /\ Traceback
            /\ UNCHANGED <<commands, config_string>>
       ELSE /\ commands' = IF config_file_exists
                           THEN FinalCommands(is_delete, commands, list_diff,
                                              config_file.lines)
                           ELSE commands
            /\ config_string' = Join(commands')
            /\ pc' = "check_mode"
            /\ UNCHANGED <<reported, failure>>
    /\ UNCHANGED <<params, pdvars, config_file_exists, previous_config,
                   current_config, list_diff, calls, sent>>

\* if module.check_mode: safe_exit(module, device, ...)
CheckMode ==
    /\ pc = "check_mode"
    /\ IF check_mode
       THEN /\ calls' = SafeClose(calls, TRUE)
            /\ ExitJson
       ELSE /\ pc' = "exec"
            /\ UNCHANGED <<calls, reported, failure>>
    /\ UNCHANGED <<params, pdvars, config_file_exists, previous_config,
                   current_config, list_diff, commands, config_string, sent>>

\* device.cli_display(commands) or device.cli_config(commands); PYHPError
\* handled by safe_fail with the device
Execute ==
    /\ pc = "exec"
    /\ sent' = commands
    /\ \E outcome \in {"ok", "PYHPError"} :
          IF outcome = "ok"
          THEN /\ calls' = Append(calls, EntryPoint(ctype))
               /\ pc' = "finish"
               /\ UNCHANGED <<reported, failure>>
          ELSE /\ calls' = SafeClose(Append(calls, EntryPoint(ctype)), TRUE)
               /\ FailJson("error during execution")
    /\ UNCHANGED <<params, pdvars, config_file_exists, previous_config,
                   current_config, list_diff, commands, config_string>>

\* the results dictionary and safe_exit(module, device, **results)
Finish ==
    /\ pc = "finish"
    /\ calls' = SafeClose(calls, TRUE)
    /\ ExitJson
    /\ UNCHANGED <<params, pdvars, config_file_exists, previous_config,
                   current_config, list_diff, commands, config_string, sent>>

Next ==
    \/ Start
    \/ CheckConfigFile
    \/ DeviceOpen
    \/ LoadConfigs
    \/ ProcessDiffBegin
    \/ ProcessDiffLine
    \/ ProcessDiffReturn
    \/ BuildCommandList
    \/ CheckMode
    \/ Execute
    \/ Finish

\* the whole invocation
Spec == Init /\ [][Next]_vars

NextDiff ==
    \/ ProcessDiffBegin
    \/ ProcessDiffLine
    \/ ProcessDiffReturn

\* process_diff on its own, over the larger vocabulary
SpecDiff == InitDiff /\ [][NextDiff]_vars


(***************************************************************************)
(* Properties of process_diff (checked under SpecDiff).                    *)
(***************************************************************************)
Range(q) == {q[k] : k \in DOMAIN q}

\* the loop is about to process a line
AtLine == pc = "pd_loop" /\ idx <= Len(diff_lines)

\* the diff line immediately before the one being processed
PrecedingLine == IF idx = 1 THEN "" ELSE diff_lines[idx - 1]

\* C1 (as amended): for every removed line whose body starts with
\* 'service-instance', process_diff emits exactly three commands, in order:
\* the immediately preceding diff line with its marker stripped,
\* 'undo <body>', and 'quit' followed by a newline; previous =
\* ["context-line", "service-instance 5"], current = ["context-line"] gives
\* exactly ["context-line", "undo service-instance 5", "quit\n"].
C1_ServiceInstanceUndo ==
    /\ [][ (AtLine /\ Removed(diff_lines[idx], "service-instance"))
           => changed_commands' =
                 changed_commands \o <<Body(PrecedingLine),
                                       "undo " \o Body(diff_lines[idx]),
                                       "quit\n">> ]_vars
    /\ [](( /\ pc = "build"
            /\ previous_config = <<"context-line", "service-instance 5">>
            /\ current_config = <<"context-line">> )
          => changed_commands =
                <<"context-line", "undo service-instance 5", "quit\n">>)

\* C1 as stated: the third command is 'quit'.
C1_Original ==
    /\ [][ (AtLine /\ Removed(diff_lines[idx], "service-instance"))
           => changed_commands' =
                 changed_commands \o <<Body(PrecedingLine),
                                       "undo " \o Body(diff_lines[idx]),
                                       "quit">> ]_vars
    /\ [](( /\ pc = "build"
            /\ previous_config = <<"context-line", "service-instance 5">>
            /\ current_config = <<"context-line">> )
          => changed_commands =
                <<"context-line", "undo service-instance 5", "quit">>)

\* the service-instance example has been run to the end
C1_Witness ==
    /\ pc = "build"
    /\ previous_config = <<"context-line", "service-instance 5">>
    /\ current_config = <<"context-line">>
    /\ Len(changed_commands) = 3
    /\ changed_commands[2] = "undo service-instance 5"

\* what C2 expects for a removed 'ip vpn-instance' line, given the last
\* command of the bgp form
VpnExpected(quit) ==
    IF StartsWith(Body(PrecedingLine), "bgp")
    THEN <<Body(PrecedingLine), "undo " \o Body(diff_lines[idx]), quit>>
    ELSE <<"undo " \o Body(diff_lines[idx])>>

\* C2 (as amended): for every removed line whose body starts with
\* 'ip vpn-instance', if the immediately preceding diff line, marker
\* stripped, starts with 'bgp', process_diff emits exactly that line
\* stripped, 'undo <body>' and 'quit' followed by a newline; otherwise
\* exactly 'undo <body>'.  Removed 'bgp' then removed 'ip vpn-instance test'
\* gives ["bgp", "undo ip vpn-instance test", "quit\n"]; the removed line
\* alone gives ["undo ip vpn-instance test"].
C2_VpnInstanceUndo ==
    /\ [][ (AtLine /\ Removed(diff_lines[idx], "ip vpn-instance"))
           => changed_commands' = changed_commands \o VpnExpected("quit\n") ]_vars
    /\ [](( /\ pc = "build"
            /\ previous_config = <<"bgp", "ip vpn-instance test">>
            /\ current_config = <<>> )
          => changed_commands = <<"bgp", "undo ip vpn-instance test", "quit\n">>)
    /\ [](( /\ pc = "build"
            /\ previous_config = <<"ip vpn-instance test">>
            /\ current_config = <<>> )
          => changed_commands = <<"undo ip vpn-instance test">>)

\* C2 as stated: the third command of the bgp form is 'quit'.
C2_Original ==
    /\ [][ (AtLine /\ Removed(diff_lines[idx], "ip vpn-instance"))
           => changed_commands' = changed_commands \o VpnExpected("quit") ]_vars
    /\ [](( /\ pc = "build"
            /\ previous_config = <<"bgp", "ip vpn-instance test">>
            /\ current_config = <<>> )
          => changed_commands = <<"bgp", "undo ip vpn-instance test", "quit">>)
    /\ [](( /\ pc = "build"
            /\ previous_config = <<"ip vpn-instance test">>
            /\ current_config = <<>> )
          => changed_commands = <<"undo ip vpn-instance test">>)

\* the bgp example has been run to the end
C2_Witness ==
    /\ pc = "build"
    /\ previous_config = <<"bgp", "ip vpn-instance test">>
    /\ current_config = <<>>
    /\ Len(changed_commands) = 3
    /\ changed_commands[1] = "bgp"

\* C8 (as amended): the edit script consumed by the pass is a unified diff
\* with context: besides added and removed lines it holds hunk headers
\* ('@@ ...') and unchanged context lines (marker ' ').  At every step
\* last_line is the initial empty string (only before the first line) or the
\* previous element of the edit script, which may be an added, removed,
\* unchanged or hunk-header line; a removed line is never the first line.
C8_LookBackIsPreviousElement ==
    pc = "pd_loop" =>
       /\ last_line = PrecedingLine
       /\ \A k \in DOMAIN diff_lines :
             Marker(diff_lines[k]) \in {"+", "-", " ", "@"}
       /\ (AtLine /\ Marker(diff_lines[idx]) = "-") => idx > 1

\* C8 as stated: unchanged lines are omitted and last_line is the empty
\* string or an added or removed line.
C8_Original ==
    pc = "pd_loop" =>
       /\ last_line = PrecedingLine
       /\ \A k \in DOMAIN diff_lines : Marker(diff_lines[k]) \in {"+", "-"}

\* a removed service-instance line is reached with an unchanged line as
\* look-back
C8_Witness ==
    /\ AtLine
    /\ idx > 1
    /\ Marker(last_line) = " "
    /\ Removed(diff_lines[idx], "service-instance")

\* an added or removed empty configuration line
MarkerOnly(line) == Len(line) = 1 /\ Marker(line) \in {"+", "-"}

\* C9: a marker-only diff line never crashes the pass and contributes to
\* neither output: processing it changes neither list, and the commands
\* emitted for the line after it hold nothing taken from it.
C9_MarkerOnlyContributesNothing ==
    /\ [][ (AtLine /\ MarkerOnly(diff_lines[idx]))
           => /\ changed_commands' = changed_commands
              /\ pd_list_diff' = pd_list_diff
              /\ reported' = "none" ]_vars
    /\ [][ (AtLine /\ idx > 1 /\ MarkerOnly(diff_lines[idx - 1]))
           => \A k \in (Len(changed_commands) + 1)..Len(changed_commands') :
                 changed_commands'[k] # Body(diff_lines[idx - 1]) ]_vars


(***************************************************************************)
(* Properties of the whole invocation (checked under Spec).                *)
(***************************************************************************)
\* a display/show or configuration-apply call has been made on the device
CliCalled == "cli_display" \in Range(calls) \/ "cli_config" \in Range(calls)

\* the final command sequence has been built
Built == pc \in {"check_mode", "exec", "finish"} \/ reported = "exit_json"
         \/ CliCalled

\* the lines of a text with trailing whitespace stripped
Stripped(lines) == [k \in 1..Len(lines) |-> Rstrip(lines[k])]

\* C3 (as amended): in incremental mode, whenever the changed-lines list is
\* non-empty, the final command sequence handed to the device is exactly the
\* synthesized undo commands, in emission order, followed by every line of
\* the current configuration file, trailing whitespace stripped, in file
\* order.
C3_UndoThenCurrentConfig ==
    (is_delete = "false" /\ Built /\ Len(list_diff) > 0) =>
       /\ commands = changed_commands \o Stripped(config_file.lines)
       /\ CliCalled => sent = commands

\* C3 as stated: the undo commands are followed by the file's lines as they
\* are.
C3_Original ==
    (is_delete = "false" /\ Built /\ Len(list_diff) > 0) =>
       /\ commands = changed_commands \o config_file.lines
       /\ CliCalled => sent = commands

\* undo commands and a non-empty current configuration were sent
C3_Witness ==
    /\ is_delete = "false"
    /\ reported = "exit_json"
    /\ CliCalled
    /\ Len(list_diff) > 0
    /\ Len(changed_commands) > 0
    /\ Len(config_file.lines) > 0
    /\ sent = commands

\* C4 (as amended): in incremental mode, when the changed-lines list is
\* empty, the final command sequence is exactly the one placeholder command;
\* outside check mode that one-element sequence is still passed to the
\* display/show or configuration-apply entry point selected by type, and
\* nothing else is sent.
C4_PlaceholderWhenNoChanges ==
    (is_delete = "false" /\ Built /\ list_diff = <<>>) =>
       /\ commands = <<NoChanges>>
       /\ CliCalled => sent = <<NoChanges>>
       /\ (reported = "exit_json" /\ ~check_mode)
             => calls = <<"open", EntryPoint(ctype), "close">>
       /\ check_mode => ~CliCalled

\* C4 as stated: the placeholder is produced and neither entry point of the
\* device is invoked.
C4_Original ==
    (is_delete = "false" /\ Built /\ list_diff = <<>>) =>
       /\ commands = <<NoChanges>>
       /\ ~CliCalled

\* an incremental run without changes has completed outside check mode
C4_Witness ==
    /\ is_delete = "false"
    /\ list_diff = <<>>
    /\ ~check_mode
    /\ reported = "exit_json"
    /\ sent = <<NoChanges>>

\* process_diff has not been entered
DiffNotRun ==
    /\ pc \notin {"diff", "pd_loop"}
    /\ diff_lines = <<>>
    /\ changed_commands = <<>>
    /\ list_diff = <<>>

\* C5 (as amended): in full-replacement mode process_diff is never run and
\* the final command sequence equals the lines of the current configuration
\* file, trailing whitespace stripped, in file order, whatever the
\* previous-configuration content and file inputs are.
C5_FullReplacement ==
    is_delete = "true" =>
       /\ DiffNotRun
       /\ Built => commands = Stripped(config_file.lines)
       /\ CliCalled => sent = commands

\* C5 as stated: the command sequence equals the file's lines.
C5_Original ==
    is_delete = "true" =>
       /\ DiffNotRun
       /\ Built => commands = config_file.lines
       /\ CliCalled => sent = commands

\* a full replacement was sent although a previous configuration was given
C5_Witness ==
    /\ is_delete = "true"
    /\ reported = "exit_json"
    /\ CliCalled
    /\ Len(commands) > 0
    /\ ContentGiven(previous_config_content)
    /\ previous_config_file.state = "readable"

\* C6: on every exit path of an invocation that has opened, or tried to
\* open, the device session, device.close is called before the process
\* reports success or failure.
C6_SessionReleased ==
    (reported # "none" /\ "open" \in Range(calls)) =>
       calls[Len(calls)] = "close"

\* C7: if the current-configuration file does not exist, the invocation
\* fails before any device interaction: device.open is never called, no
\* command is sent, and no later step of the flow runs.
C7_MissingConfigFileFailsEarly ==
    config_file.state = "missing" =>
       /\ calls = <<>>
       /\ sent = <<>>
       /\ commands = <<>>
       /\ pc \in {"start", "check_file", "exited"}
       /\ pc = "exited" => reported \in {"fail_json", "traceback"}
       /\ DiffNotRun

\* the missing configuration file has been reported
C7_Witness ==
    /\ config_file.state = "missing"
    /\ pc = "exited"
    /\ reported = "fail_json"
    /\ failure = "Cannot find/access config_file"
    /\ calls = <<>>

\* the previous configuration C10 expects
ExpectedPrevious ==
    IF ContentGiven(previous_config_content) THEN previous_config_content.segs
    ELSE IF previous_config_file.state = "readable"
    THEN previous_config_file.lines
    ELSE <<>>

\* C10: in incremental mode the previous configuration is the literal
\* content if supplied, else the previous-config file if present, else
\* empty; with neither supplied the invocation proceeds with an empty
\* previous configuration (every current line added, no undo command)
\* rather than failing.
C10_PreviousSelection ==
    /\ pc \in {"diff", "pd_loop"} => previous_config = ExpectedPrevious
    /\ ( /\ is_delete = "false"
         /\ ~previous_config_content.supplied
         /\ previous_config_file.state = "None"
         /\ config_file.state = "readable" )
       => /\ "open" \in Range(calls) => reported # "traceback"
          /\ Built => /\ changed_commands = <<>>
                      /\ list_diff = [k \in 1..Len(list_diff) |-> "+" \o
                                         current_config[k]]

====
